---- MODULE Spec2Model ----
(***************************************************************************)
(* love-pods: the gauge-driven synchronisation and mixing engine of        *)
(* src/src/App.tsx.  The React component's state, its refs, the timers it  *)
(* arms with setTimeout and its in-flight asynchronous loads are the       *)
(* variables; every handler (button click, key event, animation frame,     *)
(* timer callback, load completion) is one action.                         *)
(*                                                                         *)
(* Units.  Time is in whole seconds.  The gauge is kept in twentieths      *)
(* (0.05), the largest unit in which gaugeSpeed 0.15, decayRate 0.5 and    *)
(* the bound 100 are all integers.  A gain of 1.0 is GainOne.              *)
(***************************************************************************)
EXTENDS Integers, Sequences, FiniteSets, TLC

\* ---- CONFIG (App.tsx 15-24) and the literals of the handlers ----
loopEndTime == 7
vocalStartTime == 17
gaugeSpeed == 3
vocalGaugeSpeed == 3
decayRate == 10
fadeOutTime == 10
GaugeMax == 2000
BassTop == 400
DrumsTop == 800
VocalsSpan == 1200
switchFade == 1

\* ---- bounds of the exploration ----
FramesPerSec == 240
MaxTime == 38
MaxSessions == 2
MaxStops == 2
MaxSwitches == 1
MaxLoadTime == 1
AgreeFrames == 6
MaxPauses == 2

GainOne == 6 * GaugeMax
Immediately == 0 - 1

Max(a, b) == IF a > b THEN a ELSE b

Channels == {"clock", "other", "bass", "drums", "vocals"}
StemNames == {"other", "bass", "drums", "vocals"}
Ctxs == 1..MaxSessions

\* music_list.json and the stem files the server holds for each folder
Catalog == <<"A", "B">>
Assets(m) == IF m = "A" THEN StemNames ELSE {"other", "bass", "drums"}
Tracks == {Catalog[i] : i \in 1..Len(Catalog)}

NotLoaded == [loaded |-> FALSE, stems |-> {}]
Loaded(m) == [loaded |-> TRUE, stems |-> Assets(m)]

NoClock == [exists |-> FALSE, loop |-> FALSE, stopped |-> FALSE, ctx |-> 0]
NoStems == [exists |-> FALSE, track |-> "", startAt |-> 0, ctx |-> 0,
            stopped |-> FALSE, made |-> {}]
Cmd(k, v, at) == [cmd |-> k, v |-> v, at |-> at]
NoGains == [c \in Channels |-> Cmd("null", 0, 0)]
ZeroGains == [c \in Channels |-> Cmd("value", 0, Immediately)]
EmptyAudio == [ctx |-> 0, clockSrc |-> NoClock, stems |-> NoStems,
               gains |-> NoGains, startTime |-> 0]

VARIABLES
  isReady, isLoading, statusText, stage, errorMessage,   \* React state
  musicList, selectedMusic, isPaused,
  audioRef, buffersClock, musicBuffers,                  \* refs
  gauge, visualGaugeZero, isLooping, vocalActive, isLeaning,
  loopRunning,                                           \* requestRef: a frame is requested
  timers,                                                \* armed setTimeout callbacks, oldest first
  loads,                                                 \* initAudio calls awaiting their assets
  bgLoads,                                               \* background loadMusicFolder calls
  switchLoads,                                           \* selector clicks awaiting loadMusicFolder
  listFetch,                                             \* the mount effect's fetch is in flight
  ctxs, nctx,                                            \* the AudioContexts made so far
  stops, switches,                                       \* clicks so far (bounded)
  released,                                              \* releaseLoop's now and currentLoopEnd,
                                                         \* when the last second's frames called it
  pauses,                                                \* calls of handlePause so far (bounded)
  held                                                   \* frames of the hold in progress that
                                                         \* began at gauge 0, up to the first frame
                                                         \* at GaugeMax; NoHold when there is none

vars == <<isReady, isLoading, statusText, stage, errorMessage, musicList, selectedMusic,
          audioRef, buffersClock, musicBuffers, gauge, visualGaugeZero, isLooping,
          vocalActive, isLeaning, loopRunning, timers, loads, bgLoads, switchLoads,
          listFetch, ctxs, nctx, stops, switches, released, isPaused, pauses, held>>

\* ctx.currentTime: starts at 0 with the context, stands still once it is closed
currentTime(c) == IF c = 0 THEN 0 ELSE ctxs[c].time

closeCtx(cs, c) ==
  IF c # 0 /\ cs[c].state \in {"running", "suspended"}
  THEN [cs EXCEPT ![c].state = "closed"] ELSE cs

\* a closed context that no callback will read any more is garbage: its clock is not
\* kept (the mix callback reads no context)
collect(cs, ts) ==
  [c \in Ctxs |->
     IF cs[c].state = "closed" /\ ~\E i \in 1..Len(ts) : ts[i].ctx = c /\ ts[i].kind # "mix"
     THEN [cs[c] EXCEPT !.time = 0] ELSE cs[c]]

NoRelease == [start |-> 0 - 1, now |-> 0 - 1, loopEnd |-> 0 - 1]
NoHold == 0 - 1

BufOf(m) == IF m \in DOMAIN musicBuffers THEN musicBuffers[m] ELSE NotLoaded

\* setTimeout(callback, delay): due counts the seconds down to 0; ctx is the context
\* of the arming handler, at its now (teardown, switch), stops the clicks of stop so far
Timer(kind, delay, c, at) ==
  [kind |-> kind, due |-> delay, ctx |-> c, at |-> at, stops |-> stops]

Init ==
  /\ isReady = FALSE /\ isLoading = FALSE /\ statusText = "DISCONNECTED"
  /\ stage = 0 /\ errorMessage = ""
  /\ musicList = <<>> /\ selectedMusic = ""
  /\ audioRef = EmptyAudio /\ buffersClock = FALSE
  /\ musicBuffers = [m \in Tracks |-> NotLoaded]
  /\ gauge = 0 /\ visualGaugeZero = TRUE /\ isLooping = TRUE
  /\ vocalActive = FALSE /\ isLeaning = FALSE
  /\ loopRunning = FALSE
  /\ timers = <<>> /\ loads = {} /\ bgLoads = {} /\ switchLoads = {}
  /\ listFetch = TRUE
  /\ ctxs = [c \in Ctxs |-> [state |-> "none", time |-> 0]] /\ nctx = 0
  /\ stops = 0 /\ switches = 0
  /\ released = NoRelease
  /\ isPaused = FALSE /\ pauses = 0 /\ held = NoHold


\* ---- the animation frame: gameLoop (App.tsx 415-478) and what it calls ----
\* A frame works on the part of the state it can write; isLeaning, vocalActive,
\* selectedMusic, musicBuffers and the clock are read from the variables.
FrameState ==
  [gauge |-> gauge, visualGaugeZero |-> visualGaugeZero, isLooping |-> isLooping,
   statusText |-> statusText, errorMessage |-> errorMessage, audioRef |-> audioRef,
   timers |-> timers, released |-> NoRelease]

\* a slip of lines 426-427: the upper clamp forgotten
clampGaugeLow(g) == IF g < 0 THEN 0 ELSE g

clampGauge(g) == IF g < 0 THEN 0 ELSE IF g > GaugeMax THEN GaugeMax ELSE g

\* a slip of lines 421-425: the two rates exchanged
gaugeStepSwapped(g, lean, va) ==
  LET currentGaugeSpeed == IF va THEN vocalGaugeSpeed ELSE gaugeSpeed
  IN clampGauge(IF lean THEN g + decayRate ELSE g - currentGaugeSpeed)

\* a slip of lines 424-425: no decay once the vocals are active
gaugeStepHeldInMix(g, lean, va) ==
  LET currentGaugeSpeed == IF va THEN vocalGaugeSpeed ELSE gaugeSpeed
  IN clampGauge(IF lean THEN g + currentGaugeSpeed ELSE IF va THEN g ELSE g - decayRate)

gaugeStep(g, lean, va) ==
  LET currentGaugeSpeed == IF va THEN vocalGaugeSpeed ELSE gaugeSpeed
  IN clampGauge(IF lean THEN g + currentGaugeSpeed ELSE g - decayRate)

\* two slips of line 335: the "+ 1" forgotten, and the rounding up of the elapsed loops
currentLoopEndFloor(startTime, now) ==
  startTime + ((now - startTime) \div loopEndTime) * loopEndTime

currentLoopEndCeil(startTime, now) ==
  startTime + ((now - startTime + loopEndTime - 1) \div loopEndTime) * loopEndTime

currentLoopEnd(startTime, now) ==
  startTime + (((now - startTime) \div loopEndTime) + 1) * loopEndTime

\* a slip of line 311: the instant itself taken for the delay
mixTimerDelayAbsolute(musicStartAt, now) == Max(0, musicStartAt)

mixTimerDelay(musicStartAt, now) == Max(0, musicStartAt - now)

\* a slip of lines 285 and 651: the selection the page was first rendered with,
\* as a closure captures it, instead of the ref
currentSelectedCaptured == musicList[1]

\* selectedMusicRef.current || selectedMusic (App.tsx 285, 651): the ref is written
\* together with the state (104-105, 628-629) and never back to "", so wherever the
\* state was not empty the ref holds the latest selection
currentSelected == selectedMusic

\* a slip of line 287: any missing stem refuses the mix
mixRefusedAnyMissing(currentMusic) == ~currentMusic.loaded \/ currentMusic.stems # StemNames

\* !currentMusic || !currentMusic.other (App.tsx 287)
mixRefused(currentMusic) == ~currentMusic.loaded \/ "other" \notin currentMusic.stems

\* a slip of line 299: the sources started at once
srcStartNow(musicStartAt, now) == now

\* src.start(musicStartAt) of createSrc (App.tsx 294-301): the instant handed to
\* every source made, whatever the audio clock reads
srcStart(musicStartAt, now) == musicStartAt

scheduleMusicAt17s(s, musicStartAt) ==
  LET a == s.audioRef
      currentMusic == BufOf(currentSelected)
  IN IF \E ch \in StemNames : a.gains[ch].cmd = "null" THEN s
     ELSE IF mixRefused(currentMusic)
     THEN [s EXCEPT !.errorMessage = "Failed to load music"]
     ELSE [s EXCEPT
             !.audioRef.stems = [exists |-> TRUE, track |-> currentSelected,
                                 startAt |-> srcStart(musicStartAt, currentTime(a.ctx)),
                                 ctx |-> a.ctx,
                                 stopped |-> FALSE, made |-> currentMusic.stems],
             !.audioRef.gains["other"] = Cmd("value", GainOne, musicStartAt),
             !.timers = Append(@, Timer("mix", mixTimerDelay(musicStartAt, currentTime(a.ctx)),
                                        a.ctx, 0))]

\* a slip of releaseLoop (App.tsx 335-340): the end of the last loop taken for a new anchor
releaseLoopReanchored(s) ==
  LET a == s.audioRef
      now == currentTime(a.ctx)
      loopEnd == currentLoopEnd(a.startTime, now)
      musicStartTime == loopEnd + vocalStartTime
      unlooped == [s EXCEPT !.audioRef.clockSrc.loop = FALSE,
                            !.isLooping = FALSE,
                            !.audioRef.startTime = loopEnd,
                            !.statusText = "SYNC COMPLETE...",
                            !.released = [start |-> a.startTime, now |-> now,
                                           loopEnd |-> loopEnd]]
  IN IF a.ctx = 0 \/ ~a.clockSrc.exists THEN s
     ELSE scheduleMusicAt17s(unlooped, musicStartTime)

releaseLoop(s) ==
  LET a == s.audioRef
      now == currentTime(a.ctx)
      loopEnd == currentLoopEnd(a.startTime, now)
      musicStartTime == loopEnd + vocalStartTime
      unlooped == [s EXCEPT !.audioRef.clockSrc.loop = FALSE,
                            !.isLooping = FALSE,
                            !.statusText = "SYNC COMPLETE...",
                            !.released = [start |-> a.startTime, now |-> now,
                                           loopEnd |-> loopEnd]]
  IN IF a.ctx = 0 \/ ~a.clockSrc.exists THEN s
     ELSE scheduleMusicAt17s(unlooped, musicStartTime)

setTarget(s, ch, v) ==
  IF s.audioRef.gains[ch].cmd = "null" THEN s
  ELSE [s EXCEPT !.audioRef.gains[ch] = Cmd("target", v, Immediately)]

bassVol(g) == IF g <= BassTop THEN (g * GainOne) \div BassTop ELSE GainOne
\* a slip of lines 446-449: the drums brought in from the middle of the bass band
drumVolEarly(g) ==
  IF g <= BassTop \div 2 THEN 0
  ELSE IF g <= DrumsTop
  THEN ((g - BassTop \div 2) * GainOne) \div (DrumsTop - BassTop \div 2) ELSE GainOne
drumVol(g) ==
  IF g <= BassTop THEN 0
  ELSE IF g <= DrumsTop THEN ((g - BassTop) * GainOne) \div BassTop ELSE GainOne
\* a slip of line 452: the vocals given a band as narrow as the other two
vocalVolBand(g) ==
  IF g <= DrumsTop THEN 0 ELSE ((g - DrumsTop) * GainOne) \div BassTop
vocalVol(g) ==
  IF g <= DrumsTop THEN 0 ELSE ((g - DrumsTop) * GainOne) \div VocalsSpan

\* the same three targets as the earlier variant of gameLoop computes them
\* (src/unnamed/part_000 533-555)
bassVolPart000(g) ==
  IF g > 0 /\ g <= BassTop THEN (g * GainOne) \div BassTop
  ELSE IF g > BassTop THEN GainOne ELSE 0
drumsVol(g) ==
  IF g > BassTop /\ g <= DrumsTop THEN ((g - BassTop) * GainOne) \div BassTop
  ELSE IF g > DrumsTop THEN GainOne ELSE 0
vocalsVol(g) ==
  IF g > DrumsTop /\ g <= GaugeMax THEN ((g - DrumsTop) * GainOne) \div VocalsSpan ELSE 0

\* a slip of line 435: the gauge of the previous frame, one charge step behind
clockTargetStale(g) == (Max(0, g - gaugeSpeed) * GainOne) \div GaugeMax

clockTarget(g) == (g * GainOne) \div GaugeMax

gameLoop(s) ==
  LET g == gaugeStep(s.gauge, isLeaning, vocalActive)
      s1 == [s EXCEPT !.gauge = g]
      live == s1.audioRef.ctx # 0 /\ s1.audioRef.gains["clock"].cmd # "null"
      s2 == IF ~live THEN s1
            ELSE IF s1.isLooping
            THEN setTarget(IF g >= GaugeMax THEN releaseLoop(s1) ELSE s1,
                           "clock", clockTarget(g))
            ELSE IF ~vocalActive THEN setTarget(s1, "clock", GainOne)
            ELSE setTarget(setTarget(setTarget(setTarget(s1, "clock", GainOne),
                                               "bass", bassVol(g)),
                                     "drums", drumVol(g)),
                           "vocals", vocalVol(g))
      visualZero == IF ~live THEN TRUE
                    ELSE IF s1.isLooping THEN g = 0
                    ELSE IF ~vocalActive THEN FALSE
                    ELSE g = 0
  IN [s2 EXCEPT !.visualGaugeZero = s.visualGaugeZero /\ visualZero]

\* ---- n consecutive frames with the input level unchanged ----
\* The composition of n calls of gameLoop, written out: under a constant input the
\* gauge moves monotonically, the loop is released in the first frame that sees the
\* gauge at GaugeMax, and the gain targets left behind are those of the last frame.
\* (FramesAgree checks it against gameLoop applied frame by frame.)
gaugeAfter(g, k) ==
  IF k = 0 THEN g
  ELSE IF isLeaning
  THEN clampGauge(g + k * (IF vocalActive THEN vocalGaugeSpeed ELSE gaugeSpeed))
  ELSE clampGauge(g - k * decayRate)

\* every one of the n frames (n >= 1) leaves the gauge at 0: the first one does, and
\* the gauge then is not charged
allZero(g, n) == gaugeAfter(g, 1) = 0 /\ gaugeAfter(g, n) = 0

\* the first of n frames to see the gauge at GaugeMax, 0 when none does
firstFull(g, n) ==
  LET speed == IF vocalActive THEN vocalGaugeSpeed ELSE gaugeSpeed
      need == (GaugeMax - g + speed - 1) \div speed
  IN IF gaugeAfter(g, n) < GaugeMax THEN 0 ELSE Max(1, need)

mixerTargets(s) ==
  IF ~vocalActive THEN setTarget(s, "clock", GainOne)
  ELSE setTarget(setTarget(setTarget(setTarget(s, "clock", GainOne),
                                     "bass", bassVol(s.gauge)),
                           "drums", drumVol(s.gauge)),
                 "vocals", vocalVol(s.gauge))

frames(s, n) ==
  LET g == gaugeAfter(s.gauge, n)
      live == s.audioRef.ctx # 0 /\ s.audioRef.gains["clock"].cmd # "null"
      k == firstFull(s.gauge, n)
      full == [s EXCEPT !.gauge = GaugeMax]
      rel == releaseLoop(full)
  IN IF n = 0 THEN s
     ELSE IF ~live THEN [s EXCEPT !.gauge = g]
     ELSE IF s.isLooping
     THEN IF k = 0
          THEN [setTarget([s EXCEPT !.gauge = g], "clock", clockTarget(g))
                  EXCEPT !.visualGaugeZero = s.visualGaugeZero /\ allZero(s.gauge, n)]
          ELSE IF rel.isLooping \/ k = n
          THEN [setTarget(rel, "clock", GainOne) EXCEPT !.visualGaugeZero = FALSE]
          ELSE [mixerTargets(rel) EXCEPT !.visualGaugeZero = FALSE]
     ELSE [mixerTargets([s EXCEPT !.gauge = g])
             EXCEPT !.visualGaugeZero =
                      s.visualGaugeZero /\ vocalActive /\ allZero(s.gauge, n)]

\* gameLoop applied n times, frame by frame (the test on s.gauge, never true, makes TLC
\* evaluate s before it goes on)
RECURSIVE gameLoopTimes(_, _)
gameLoopTimes(s, n) ==
  IF n = 0 \/ s.gauge < 0 THEN s ELSE gameLoopTimes(gameLoop(s), n - 1)

\* frames agrees with it: over up to AgreeFrames frames, from the gauge of the state
\* and from gauges next to both ends of its range, whatever else the state holds
AgreeGauges == {gauge} \cup 0..(2 * decayRate) \cup (GaugeMax - 4 * gaugeSpeed)..GaugeMax

FramesAgree ==
  \A g \in AgreeGauges, n \in 0..AgreeFrames :
    LET s == [FrameState EXCEPT !.gauge = g]
    IN frames(s, n) = gameLoopTimes(s, n)

\* the count of the hold after n more frames: a frame without the input ends the
\* hold, a frame that finds the gauge at 0 begins one, and the count stands once the
\* gauge has reached GaugeMax
heldAfter(g, h, n) ==
  LET speed == IF vocalActive THEN vocalGaugeSpeed ELSE gaugeSpeed
      need == (GaugeMax - g + speed - 1) \div speed
      h0 == IF g = 0 THEN 0 ELSE h
  IN IF ~isLeaning THEN NoHold
     ELSE IF h0 = NoHold \/ g >= GaugeMax THEN h
     ELSE h0 + (IF n < need THEN n ELSE need)

NoTimerDue == \A i \in 1..Len(timers) : timers[i].due > 0

\* the contexts something still holds: the audio graph, a load, a timer's closure
Held(c) ==
  \/ audioRef.ctx = c
  \/ \E l \in loads : l.ctx = c
  \/ \E i \in 1..Len(timers) : timers[i].ctx = c /\ timers[i].kind # "mix"

\* a second may pass: no callback is due, no load is older than MaxLoadTime, and no
\* context in use has run for MaxTime
MayPass ==
  /\ NoTimerDue
  /\ \A l \in loads \cup switchLoads : l.age < MaxLoadTime
  /\ \A c \in Ctxs : ctxs[c].state = "running" /\ Held(c) => ctxs[c].time < MaxTime

\* a second passes for the timers, the loads and the running contexts in use
tickTimers(ts) == [i \in 1..Len(ts) |-> [ts[i] EXCEPT !.due = @ - 1]]
tickLoads(ls) == {[l EXCEPT !.age = @ + 1] : l \in ls}
tickCtxs ==
  [c \in Ctxs |-> IF ctxs[c].state = "running" /\ Held(c)
                  THEN [ctxs[c] EXCEPT !.time = @ + 1] ELSE ctxs[c]]

\* One second in which the animation loop runs: FramesPerSec frames, then the clock moves.
Frames ==
  /\ loopRunning /\ MayPass
  /\ LET r == frames(FrameState, FramesPerSec)
     IN /\ gauge' = r.gauge /\ visualGaugeZero' = r.visualGaugeZero
        /\ isLooping' = r.isLooping /\ statusText' = r.statusText
        /\ errorMessage' = r.errorMessage /\ audioRef' = r.audioRef
        /\ timers' = tickTimers(r.timers)
        /\ released' = r.released
  /\ held' = heldAfter(gauge, held, FramesPerSec)
  /\ loads' = tickLoads(loads) /\ switchLoads' = tickLoads(switchLoads)
  /\ ctxs' = tickCtxs
  /\ UNCHANGED <<isReady, isLoading, stage, musicList, selectedMusic, buffersClock,
                 musicBuffers, vocalActive, isLeaning, loopRunning, bgLoads,
                 listFetch, nctx, stops, switches, isPaused, pauses>>

\* One animation frame by itself: gameLoop once, the clock not yet a second further.
Frame ==
  /\ loopRunning /\ NoTimerDue
  /\ LET r == gameLoop(FrameState)
     IN /\ gauge' = r.gauge /\ visualGaugeZero' = r.visualGaugeZero
        /\ isLooping' = r.isLooping /\ statusText' = r.statusText
        /\ errorMessage' = r.errorMessage /\ audioRef' = r.audioRef
        /\ timers' = r.timers
        /\ released' = r.released
  /\ held' = heldAfter(gauge, held, 1)
  /\ UNCHANGED <<isReady, isLoading, stage, musicList, selectedMusic, buffersClock,
                 musicBuffers, vocalActive, isLeaning, loopRunning, loads, bgLoads,
                 switchLoads, listFetch, ctxs, nctx, stops, switches, isPaused, pauses>>

\* One second before any frame was requested (startMusic requests the first one; the
\* loop then re-requests itself for ever, handleStop does not cancel it).
Wait ==
  /\ ~loopRunning /\ MayPass
  /\ timers' = tickTimers(timers)
  /\ loads' = tickLoads(loads) /\ switchLoads' = tickLoads(switchLoads)
  /\ ctxs' = tickCtxs
  /\ <<timers', loads', switchLoads', ctxs'>> # <<timers, loads, switchLoads, ctxs>>
  /\ UNCHANGED <<isReady, isLoading, statusText, stage, errorMessage, musicList,
                 selectedMusic, audioRef, buffersClock, musicBuffers, gauge,
                 visualGaugeZero, isLooping, vocalActive, isLeaning, loopRunning,
                 bgLoads, listFetch, nctx, stops, switches, released, isPaused, pauses, held>>

\* A callback whose delay has run out runs before any later event: every handler below
\* waits for NoTimerDue.

\* handleDown / handleUp (App.tsx 509-520)
KeyDown ==
  /\ NoTimerDue
  /\ ~isLeaning /\ isLeaning' = TRUE
  /\ UNCHANGED <<isReady, isLoading, statusText, stage, errorMessage, musicList,
                 selectedMusic, audioRef, buffersClock, musicBuffers, gauge,
                 visualGaugeZero, isLooping, vocalActive, loopRunning, timers, loads,
                 bgLoads, switchLoads, listFetch, ctxs, nctx, stops, switches, released, isPaused, pauses, held>>

KeyUp ==
  /\ NoTimerDue
  /\ isLeaning /\ isLeaning' = FALSE
  /\ UNCHANGED <<isReady, isLoading, statusText, stage, errorMessage, musicList,
                 selectedMusic, audioRef, buffersClock, musicBuffers, gauge,
                 visualGaugeZero, isLooping, vocalActive, loopRunning, timers, loads,
                 bgLoads, switchLoads, listFetch, ctxs, nctx, stops, switches, released, isPaused, pauses, held>>

\* ---- mount effect: fetch('/music_list.json') (App.tsx 98-112) ----
MusicListLoaded ==
  /\ NoTimerDue
  /\ listFetch /\ listFetch' = FALSE
  /\ \E ok \in BOOLEAN :
       IF ok
       THEN /\ musicList' = Catalog
            /\ selectedMusic' = IF Len(Catalog) > 0 THEN Catalog[1] ELSE selectedMusic
            /\ UNCHANGED errorMessage
       ELSE /\ errorMessage' = "Music list load failed"
            /\ UNCHANGED <<musicList, selectedMusic>>
  /\ UNCHANGED <<isReady, isLoading, statusText, stage, audioRef, buffersClock,
                 musicBuffers, gauge, visualGaugeZero, isLooping, vocalActive, isLeaning,
                 loopRunning, timers, loads, bgLoads, switchLoads, ctxs, nctx,
                 stops, switches, released, isPaused, pauses, held>>

\* ---- startMusic (App.tsx 241-279) on context c; ok = it reached setIsReady ----
\* clockSrc.connect(gainClock) throws when the gain node belongs to another context.
startMusic(a, c) ==
  LET stoppedOld == IF a.clockSrc.exists THEN [a EXCEPT !.clockSrc.stopped = TRUE] ELSE a
  IN IF a.gains["clock"].cmd = "null" THEN [ok |-> FALSE, audioRef |-> a]
     ELSE IF a.ctx # c THEN [ok |-> FALSE, audioRef |-> stoppedOld]
     ELSE [ok |-> TRUE,
           audioRef |-> [a EXCEPT !.clockSrc = [exists |-> TRUE, loop |-> TRUE,
                                                stopped |-> FALSE, ctx |-> c],
                                  !.startTime = currentTime(c)]]

\* a slip of lines 149-154: setIsLoading(true) moved above the test of the selection
ConnectBeginEager ==
  /\ NoTimerDue
  /\ ~isReady /\ ~isLoading
  /\ IF selectedMusic = ""
     THEN /\ errorMessage' = "No music selected"
          /\ isLoading' = TRUE
          /\ UNCHANGED <<statusText, ctxs, nctx, loads>>
     ELSE /\ nctx < MaxSessions
          /\ isLoading' = TRUE
          /\ statusText' = "LOADING..."
          /\ nctx' = nctx + 1
          /\ ctxs' = [closeCtx(ctxs, audioRef.ctx) EXCEPT
                        ![nctx + 1] = [state |-> "running", time |-> 0]]
          /\ loads' = loads \cup {[ctx |-> nctx + 1, selected |-> selectedMusic, age |-> 0]}
          /\ UNCHANGED errorMessage
  /\ UNCHANGED <<isReady, stage, musicList, selectedMusic, audioRef, buffersClock,
                 musicBuffers, gauge, visualGaugeZero, isLooping, vocalActive, isLeaning,
                 loopRunning, timers, bgLoads, switchLoads, listFetch, stops,
                 switches, released, isPaused, pauses, held>>

\* ---- initAudio (App.tsx 145-239): the click, up to the first asset await ----
ConnectBegin ==
  /\ NoTimerDue
  /\ ~isReady /\ ~isLoading
  /\ IF selectedMusic = ""
     THEN /\ errorMessage' = "No music selected"
          /\ UNCHANGED <<isLoading, statusText, ctxs, nctx, loads>>
     ELSE /\ nctx < MaxSessions
          /\ isLoading' = TRUE
          /\ statusText' = "LOADING..."
          /\ nctx' = nctx + 1
          /\ ctxs' = [closeCtx(ctxs, audioRef.ctx) EXCEPT
                        ![nctx + 1] = [state |-> "running", time |-> 0]]
          /\ loads' = loads \cup {[ctx |-> nctx + 1, selected |-> selectedMusic, age |-> 0]}
          /\ UNCHANGED errorMessage
  /\ UNCHANGED <<isReady, stage, musicList, selectedMusic, audioRef, buffersClock,
                 musicBuffers, gauge, visualGaugeZero, isLooping, vocalActive, isLeaning,
                 loopRunning, timers, bgLoads, switchLoads, listFetch, stops,
                 switches, released, isPaused, pauses, held>>

\* loadMusicFolder (App.tsx 121-143): a stem whose fetches all fail comes back null
loadMusicFolder(m, lost) == [loaded |-> TRUE, stems |-> Assets(m) \ lost]

\* the stems a failing network loses for the selected track
Losses == {{}, {"other"}, {"vocals"}, {"bass", "drums"}}

\* ---- initAudio, from the assets' arrival to the end (App.tsx 171-238) ----
\* loadFile('/onlyclock.wav') may throw; loadMusicFolder never does (tryLoad catches):
\* it stores what it got, lost being the stems whose fetches failed.
ConnectEndGot(losses) ==
  \E l \in loads, ok \in BOOLEAN, lost \in losses :
    /\ NoTimerDue
    /\ ok \/ lost = {}
    /\ loads' = loads \ {l}
    /\ isLoading' = FALSE
    /\ IF ~ok
       THEN /\ errorMessage' = "Failed to load /onlyclock.wav"
            /\ statusText' = "ERROR"
            /\ UNCHANGED <<isReady, stage, audioRef, buffersClock, musicBuffers,
                           loopRunning, bgLoads>>
       ELSE LET fresh == [EmptyAudio EXCEPT !.ctx = l.ctx, !.gains = ZeroGains]
                r == startMusic(fresh, l.ctx)
            IN /\ buffersClock' = TRUE
               /\ musicBuffers' = [musicBuffers EXCEPT
                                    ![l.selected] = loadMusicFolder(l.selected, lost)]
               /\ audioRef' = r.audioRef
               /\ isReady' = TRUE /\ stage' = 1
               /\ statusText' = "SYNC TIME (HOLD SPACE)"
               /\ loopRunning' = TRUE
               /\ bgLoads' = bgLoads \cup (Tracks \ {l.selected})
               /\ UNCHANGED errorMessage
    /\ UNCHANGED <<musicList, selectedMusic, gauge, visualGaugeZero, isLooping,
                   vocalActive, isLeaning, timers, switchLoads, listFetch, ctxs,
                   nctx, stops, switches, released, isPaused, pauses, held>>

\* initAudio on a network that delivers every stem the server holds
ConnectEnd == ConnectEndGot({{}})

\* a background loadMusicFolder resolves (App.tsx 217-221)
BackgroundLoaded ==
  \E m \in bgLoads :
    /\ NoTimerDue
    /\ bgLoads' = bgLoads \ {m}
    /\ musicBuffers' = [musicBuffers EXCEPT ![m] = Loaded(m)]
    /\ UNCHANGED <<isReady, isLoading, statusText, stage, errorMessage, musicList,
                   selectedMusic, audioRef, buffersClock, gauge, visualGaugeZero,
                   isLooping, vocalActive, isLeaning, loopRunning, timers, loads,
                   switchLoads, listFetch, ctxs, nctx, stops, switches, released, isPaused, pauses, held>>

\* ---- handlePause (App.tsx 347-366): suspend a running context, resume a suspended one
\* a slip of line 349: the test for a missing context forgotten
PauseUnguarded ==
  /\ NoTimerDue
  /\ pauses' = pauses + 1
  /\ LET c == audioRef.ctx
     IN IF c = 0 \/ ctxs[c].state = "running"
        THEN /\ ctxs' = IF c = 0 THEN ctxs ELSE [ctxs EXCEPT ![c].state = "suspended"]
             /\ isPaused' = TRUE /\ statusText' = "PAUSED"
        ELSE IF ctxs[c].state = "suspended"
        THEN /\ ctxs' = [ctxs EXCEPT ![c].state = "running"]
             /\ isPaused' = FALSE
             /\ statusText' = IF vocalActive THEN "MUSIC ACTIVE"
                              ELSE IF ~isLooping THEN "SYNC COMPLETE..."
                              ELSE "SYNC TIME (HOLD SPACE)"
        ELSE UNCHANGED <<ctxs, isPaused, statusText>>
  /\ UNCHANGED <<isReady, isLoading, stage, errorMessage, musicList, selectedMusic,
                 audioRef, buffersClock, musicBuffers, gauge, visualGaugeZero, isLooping,
                 vocalActive, isLeaning, loopRunning, timers, loads, bgLoads, switchLoads,
                 listFetch, nctx, stops, switches, released, held>>

\* a slip of lines 352-355: the pending mix activation dropped with the suspend
PauseCancelsMix ==
  /\ NoTimerDue
  /\ pauses' = pauses + 1
  /\ LET c == audioRef.ctx
     IN IF c = 0 THEN UNCHANGED <<ctxs, isPaused, statusText>>
        ELSE IF ctxs[c].state = "running"
        THEN /\ ctxs' = [ctxs EXCEPT ![c].state = "suspended"]
             /\ isPaused' = TRUE /\ statusText' = "PAUSED"
        ELSE IF ctxs[c].state = "suspended"
        THEN /\ ctxs' = [ctxs EXCEPT ![c].state = "running"]
             /\ isPaused' = FALSE
             /\ statusText' = IF vocalActive THEN "MUSIC ACTIVE"
                              ELSE IF ~isLooping THEN "SYNC COMPLETE..."
                              ELSE "SYNC TIME (HOLD SPACE)"
        ELSE UNCHANGED <<ctxs, isPaused, statusText>>
  /\ timers' = IF audioRef.ctx # 0 /\ ctxs[audioRef.ctx].state = "running"
               THEN SelectSeq(timers, LAMBDA x : x.kind # "mix") ELSE timers
  /\ UNCHANGED <<isReady, isLoading, stage, errorMessage, musicList, selectedMusic,
                 audioRef, buffersClock, musicBuffers, gauge, visualGaugeZero, isLooping,
                 vocalActive, isLeaning, loopRunning, loads, bgLoads, switchLoads,
                 listFetch, nctx, stops, switches, released, held>>

Pause ==
  /\ NoTimerDue
  /\ pauses' = pauses + 1
  /\ LET c == audioRef.ctx
     IN IF c = 0 THEN UNCHANGED <<ctxs, isPaused, statusText>>
        ELSE IF ctxs[c].state = "running"
        THEN /\ ctxs' = [ctxs EXCEPT ![c].state = "suspended"]
             /\ isPaused' = TRUE /\ statusText' = "PAUSED"
        ELSE IF ctxs[c].state = "suspended"
        THEN /\ ctxs' = [ctxs EXCEPT ![c].state = "running"]
             /\ isPaused' = FALSE
             /\ statusText' = IF vocalActive THEN "MUSIC ACTIVE"
                              ELSE IF ~isLooping THEN "SYNC COMPLETE..."
                              ELSE "SYNC TIME (HOLD SPACE)"
        ELSE UNCHANGED <<ctxs, isPaused, statusText>>
  /\ UNCHANGED <<isReady, isLoading, stage, errorMessage, musicList, selectedMusic,
                 audioRef, buffersClock, musicBuffers, gauge, visualGaugeZero, isLooping,
                 vocalActive, isLeaning, loopRunning, timers, loads, bgLoads, switchLoads,
                 listFetch, nctx, stops, switches, released, held>>

\* g.gain.cancelScheduledValues / setValueAtTime / linearRampToValueAtTime(0, now + fade)
rampDown(a, chs, fade) ==
  [a EXCEPT !.gains = [ch \in Channels |->
      IF ch \in chs /\ a.gains[ch].cmd # "null"
      THEN Cmd("ramp", 0, currentTime(a.ctx) + fade) ELSE a.gains[ch]]]

\* a slip of line 411: the delay given in seconds, so that the callback runs at once
StopNoDelay ==
  /\ NoTimerDue
  /\ isReady
  /\ stops' = stops + 1
  /\ IF audioRef.ctx = 0 \/ audioRef.gains["clock"].cmd = "null"
     THEN UNCHANGED <<audioRef, timers>>
     ELSE /\ audioRef' = rampDown(audioRef, Channels, fadeOutTime)
          /\ timers' = Append(timers, Timer("teardown", 0, audioRef.ctx,
                                            currentTime(audioRef.ctx)))
  /\ UNCHANGED <<isReady, isLoading, statusText, stage, errorMessage, musicList,
                 selectedMusic, buffersClock, musicBuffers, gauge, visualGaugeZero,
                 isLooping, vocalActive, isLeaning, loopRunning, loads, bgLoads,
                 switchLoads, listFetch, ctxs, nctx, switches, released, isPaused, pauses, held>>

\* ---- handleStop (App.tsx 369-412): the click ----
Stop ==
  /\ NoTimerDue
  /\ isReady
  /\ stops' = stops + 1
  /\ IF audioRef.ctx = 0 \/ audioRef.gains["clock"].cmd = "null"
     THEN UNCHANGED <<audioRef, timers>>
     ELSE /\ audioRef' = rampDown(audioRef, Channels, fadeOutTime)
          /\ timers' = Append(timers, Timer("teardown", fadeOutTime, audioRef.ctx,
                                            currentTime(audioRef.ctx)))
  /\ UNCHANGED <<isReady, isLoading, statusText, stage, errorMessage, musicList,
                 selectedMusic, buffersClock, musicBuffers, gauge, visualGaugeZero,
                 isLooping, vocalActive, isLeaning, loopRunning, loads, bgLoads,
                 switchLoads, listFetch, ctxs, nctx, switches, released, isPaused, pauses, held>>

\* ---- music-item onClick (App.tsx 601-708) ----
\* The part after the optional load: selection, then the branch on the stage the
\* click's closure captured.
SwitchApply(m, st) ==
  /\ selectedMusic' = m
  /\ IF st = 2
     THEN IF audioRef.ctx # 0 /\ \A ch \in StemNames : audioRef.gains[ch].cmd # "null"
          THEN /\ audioRef' = rampDown(audioRef, StemNames, switchFade)
               /\ timers' = Append(timers, Timer("switch2", switchFade, audioRef.ctx,
                                                currentTime(audioRef.ctx)))
          ELSE UNCHANGED <<audioRef, timers>>
     ELSE IF audioRef.ctx # 0 /\ audioRef.gains["clock"].cmd # "null"
          THEN /\ audioRef' = rampDown(audioRef, Channels, fadeOutTime)
               /\ timers' = Append(timers, Timer("switch1", fadeOutTime, audioRef.ctx,
                                                currentTime(audioRef.ctx)))
          ELSE UNCHANGED <<audioRef, timers>>

needsLoad(m) == ~BufOf(m).loaded \/ "other" \notin BufOf(m).stems

\* the click on a track whose buffers are there: no await
Switch ==
  \E m \in Tracks :
    /\ NoTimerDue
    /\ isReady /\ stage \in {1, 2} /\ \E i \in 1..Len(musicList) : musicList[i] = m
    /\ ~isLoading /\ m # selectedMusic
    /\ switches' = switches + 1
    /\ ~(needsLoad(m) /\ audioRef.ctx # 0)
    /\ SwitchApply(m, stage)
    /\ UNCHANGED <<isReady, isLoading, statusText, stage, errorMessage, musicList,
                   buffersClock, musicBuffers, gauge, visualGaugeZero, isLooping,
                   vocalActive, isLeaning, loopRunning, loads, bgLoads, switchLoads,
                   listFetch, ctxs, nctx, stops, released, isPaused, pauses, held>>

\* a slip of lines 604-626: the selection made before the load instead of after it
SwitchBeginEager ==
  \E m \in Tracks :
    /\ NoTimerDue
    /\ isReady /\ stage \in {1, 2} /\ \E i \in 1..Len(musicList) : musicList[i] = m
    /\ ~isLoading /\ m # selectedMusic
    /\ switches' = switches + 1
    /\ needsLoad(m) /\ audioRef.ctx # 0
    /\ isLoading' = TRUE
    /\ statusText' = "LOADING TRACK..."
    /\ selectedMusic' = m
    /\ switchLoads' = switchLoads \cup {[m |-> m, stage |-> stage, age |-> 0]}
    /\ UNCHANGED <<isReady, stage, errorMessage, musicList, audioRef,
                   buffersClock, musicBuffers, gauge, visualGaugeZero, isLooping,
                   vocalActive, isLeaning, loopRunning, timers, loads, bgLoads,
                   listFetch, ctxs, nctx, stops, released, isPaused, pauses, held>>

\* the click on a track that is not buffered yet: up to await loadMusicFolder
SwitchBegin ==
  \E m \in Tracks :
    /\ NoTimerDue
    /\ isReady /\ stage \in {1, 2} /\ \E i \in 1..Len(musicList) : musicList[i] = m
    /\ ~isLoading /\ m # selectedMusic
    /\ switches' = switches + 1
    /\ needsLoad(m) /\ audioRef.ctx # 0
    /\ isLoading' = TRUE
    /\ statusText' = "LOADING TRACK..."
    /\ switchLoads' = switchLoads \cup {[m |-> m, stage |-> stage, age |-> 0]}
    /\ UNCHANGED <<isReady, stage, errorMessage, musicList, selectedMusic, audioRef,
                   buffersClock, musicBuffers, gauge, visualGaugeZero, isLooping,
                   vocalActive, isLeaning, loopRunning, timers, loads, bgLoads,
                   listFetch, ctxs, nctx, stops, released, isPaused, pauses, held>>

\* loadMusicFolder resolved: buffers stored, isLoading cleared, then the rest of onClick
SwitchLoaded ==
  \E w \in switchLoads :
    /\ NoTimerDue
    /\ switchLoads' = switchLoads \ {w}
    /\ musicBuffers' = [musicBuffers EXCEPT ![w.m] = Loaded(w.m)]
    /\ isLoading' = FALSE
    /\ SwitchApply(w.m, w.stage)
    /\ UNCHANGED <<isReady, statusText, stage, errorMessage, musicList, buffersClock,
                   gauge, visualGaugeZero, isLooping, vocalActive, isLeaning,
                   loopRunning, loads, bgLoads, listFetch, ctxs, nctx, stops,
                   switches, released, isPaused, pauses, held>>

\* ---- timers: the earliest-armed callback whose delay has run out fires ----
RemoveAt(seq, i) == SubSeq(seq, 1, i - 1) \o SubSeq(seq, i + 1, Len(seq))
Due(i) ==
  /\ i \in 1..Len(timers) /\ timers[i].due = 0
  /\ \A j \in 1..(i - 1) : timers[j].due > 0

stopSources(a, withClock) ==
  [a EXCEPT !.clockSrc.stopped = IF withClock /\ a.clockSrc.exists THEN TRUE ELSE @,
            !.stems.stopped = IF a.stems.exists THEN TRUE ELSE @]

\* a slip of line 314: setStage(2) forgotten in the callback
FireMixStageKept ==
  \E i \in 1..Len(timers) :
    /\ Due(i) /\ timers[i].kind = "mix"
    /\ timers' = RemoveAt(timers, i)
    /\ vocalActive' = TRUE
    /\ statusText' = "MUSIC ACTIVE"
    /\ gauge' = 0 /\ held' = NoHold
    /\ UNCHANGED <<isReady, stage, isLoading, errorMessage, musicList, selectedMusic, audioRef,
                   buffersClock, musicBuffers, visualGaugeZero, isLooping, isLeaning,
                   loopRunning, loads, bgLoads, switchLoads, listFetch, ctxs,
                   nctx, stops, switches, released, isPaused, pauses>>

\* the callback of scheduleMusicAt17s (App.tsx 312-317)
FireMix ==
  \E i \in 1..Len(timers) :
    /\ Due(i) /\ timers[i].kind = "mix"
    /\ timers' = RemoveAt(timers, i)
    /\ vocalActive' = TRUE
    /\ stage' = 2
    /\ statusText' = "MUSIC ACTIVE"
    /\ gauge' = 0 /\ held' = NoHold
    /\ UNCHANGED <<isReady, isLoading, errorMessage, musicList, selectedMusic, audioRef,
                   buffersClock, musicBuffers, visualGaugeZero, isLooping, isLeaning,
                   loopRunning, loads, bgLoads, switchLoads, listFetch, ctxs,
                   nctx, stops, switches, released, isPaused, pauses>>

\* the callback of handleStop (App.tsx 385-411); ctx is the context the click captured
FireTeardown ==
  \E i \in 1..Len(timers) :
    /\ Due(i) /\ timers[i].kind = "teardown"
    /\ timers' = RemoveAt(timers, i)
    /\ ctxs' = collect(closeCtx(ctxs, timers[i].ctx), timers')
    /\ isLooping' = TRUE /\ vocalActive' = FALSE
    /\ gauge' = 0 /\ visualGaugeZero' = TRUE /\ held' = NoHold
    /\ isReady' = FALSE /\ stage' = 0 /\ statusText' = "DISCONNECTED"
    /\ isPaused' = FALSE
    /\ isLoading' = FALSE
    /\ audioRef' = EmptyAudio
    /\ UNCHANGED <<errorMessage, musicList, selectedMusic, buffersClock, musicBuffers,
                   isLeaning, loopRunning, loads, bgLoads, switchLoads, listFetch,
                   nctx, stops, switches, released, pauses>>

\* a slip of lines 661 and 671: the new stems started on the grid of the anchor
FireSwitch2Anchored ==
  \E i \in 1..Len(timers) :
    /\ Due(i) /\ timers[i].kind = "switch2"
    /\ timers' = RemoveAt(timers, i)
    /\ LET c == timers[i].ctx
           a == stopSources(audioRef, FALSE)
           currentMusic == BufOf(currentSelected)
           now == a.startTime + loopEndTime + vocalStartTime
       IN audioRef' =
            IF currentMusic.loaded /\ "other" \in currentMusic.stems
            THEN [a EXCEPT
                    !.stems = [exists |-> TRUE, track |-> currentSelected, startAt |-> now,
                               ctx |-> c, stopped |-> FALSE, made |-> currentMusic.stems],
                    !.gains["other"] = IF a.ctx = c /\ @.cmd # "null"
                                       THEN Cmd("value", GainOne, now) ELSE @]
            ELSE a
    /\ UNCHANGED <<isReady, isLoading, statusText, stage, errorMessage, musicList,
                   selectedMusic, buffersClock, musicBuffers, gauge, visualGaugeZero,
                   isLooping, vocalActive, isLeaning, loopRunning, loads, bgLoads,
                   switchLoads, listFetch, ctxs, nctx, stops, switches, released, isPaused, pauses, held>>

\* the callback of the stage-2 switch (App.tsx 644-674); ctx and the four stem gains
\* are the ones the click captured
FireSwitch2 ==
  \E i \in 1..Len(timers) :
    /\ Due(i) /\ timers[i].kind = "switch2"
    /\ timers' = RemoveAt(timers, i)
    /\ LET c == timers[i].ctx
           a == stopSources(audioRef, FALSE)
           currentMusic == BufOf(currentSelected)
           now == currentTime(c)
       IN audioRef' =
            IF currentMusic.loaded /\ "other" \in currentMusic.stems
            THEN [a EXCEPT
                    !.stems = [exists |-> TRUE, track |-> currentSelected, startAt |-> now,
                               ctx |-> c, stopped |-> FALSE, made |-> currentMusic.stems],
                    !.gains["other"] = IF a.ctx = c /\ @.cmd # "null"
                                       THEN Cmd("value", GainOne, now) ELSE @]
            ELSE a
    /\ UNCHANGED <<isReady, isLoading, statusText, stage, errorMessage, musicList,
                   selectedMusic, buffersClock, musicBuffers, gauge, visualGaugeZero,
                   isLooping, vocalActive, isLeaning, loopRunning, loads, bgLoads,
                   switchLoads, listFetch, ctxs, nctx, stops, switches, released, isPaused, pauses, held>>

\* the callback of the stage-1 switch (App.tsx 692-704)
FireSwitch1 ==
  \E i \in 1..Len(timers) :
    /\ Due(i) /\ timers[i].kind = "switch1"
    /\ timers' = RemoveAt(timers, i)
    /\ LET a == stopSources(audioRef, TRUE)
           r == IF buffersClock THEN startMusic(a, timers[i].ctx)
                ELSE [ok |-> FALSE, audioRef |-> a]
       IN /\ audioRef' = r.audioRef
          /\ IF r.ok
             THEN /\ isReady' = TRUE /\ stage' = 1
                  /\ statusText' = "SYNC TIME (HOLD SPACE)"
                  /\ loopRunning' = TRUE
             ELSE UNCHANGED <<isReady, stage, statusText, loopRunning>>
    /\ UNCHANGED <<isLoading, errorMessage, musicList, selectedMusic, buffersClock,
                   musicBuffers, gauge, visualGaugeZero, isLooping, vocalActive,
                   isLeaning, loads, bgLoads, switchLoads, listFetch, ctxs, nctx,
                   stops, switches, released, isPaused, pauses, held>>

\* ---- the user's clicks, within the budgets of the exploration ----
Connect == selectedMusic # "" /\ ConnectBegin
\* the user stops while the fade still ends within the sessions' MaxTime
InTime == currentTime(audioRef.ctx) + fadeOutTime <= MaxTime
StopClick == stops < MaxStops /\ InTime /\ Stop
FirstStop == stops = 0 /\ InTime /\ Stop
SwitchClick == switches < MaxSwitches /\ (Switch \/ SwitchBegin)

\* a user who connects and leans: the synchronisation and the mix, one stop
Next ==
  \/ MusicListLoaded \/ Connect \/ ConnectEnd
  \/ KeyDown \/ KeyUp \/ Frames \/ Wait
  \/ FirstStop
  \/ FireMix \/ FireTeardown

Spec == Init /\ [][Next]_vars

\* the animation loop keeps being served and a due callback runs
SpecFair ==
  /\ Spec
  /\ WF_vars(Frames) /\ WF_vars(FireMix) /\ WF_vars(FireTeardown)

\* the same user, who also swaps tracks while the mix plays
NextMix ==
  \/ MusicListLoaded \/ Connect \/ ConnectEnd \/ BackgroundLoaded
  \/ KeyDown \/ KeyUp \/ Frames \/ Wait
  \/ FirstStop \/ (stage = 2 /\ SwitchClick) \/ SwitchLoaded
  \/ FireMix \/ FireTeardown \/ FireSwitch2

SpecMix == Init /\ [][NextMix]_vars

\* a user who connects and stops, again and again, but never leans
NextStops ==
  \/ MusicListLoaded \/ Connect \/ ConnectEnd
  \/ Frames \/ Wait
  \/ StopClick
  \/ FireTeardown

SpecStops == Init /\ [][NextStops]_vars

\* a user who connects, leans and switches tracks
NextSwitch ==
  \/ MusicListLoaded \/ Connect \/ ConnectEnd \/ BackgroundLoaded
  \/ KeyDown \/ KeyUp \/ Frames \/ Wait
  \/ SwitchClick \/ SwitchLoaded
  \/ FireMix \/ FireSwitch2 \/ FireSwitch1

SpecSwitch == Init /\ [][NextSwitch]_vars

\* the handlers called as operations, whatever the page shows: connect before a track
\* is selected, pause and resume in any state
PauseCall == pauses < MaxPauses /\ Pause

\* ... by a user who never leans, and stops once
NextCalls ==
  \/ MusicListLoaded \/ ConnectBegin \/ ConnectEnd
  \/ Frames \/ Wait
  \/ PauseCall \/ FirstStop
  \/ FireTeardown

SpecCalls == Init /\ [][NextCalls]_vars

\* a user who connects, leans and pauses, but does not stop
NextPause ==
  \/ MusicListLoaded \/ Connect \/ ConnectEnd
  \/ KeyDown \/ KeyUp \/ Frames \/ Wait
  \/ PauseCall
  \/ FireMix

SpecPause == Init /\ [][NextPause]_vars

\* a user who connects and leans on a network that may lose the accompaniment
NextLossy ==
  \/ MusicListLoaded \/ Connect \/ ConnectEndGot(Losses)
  \/ KeyDown \/ KeyUp \/ Frames \/ Wait
  \/ FireMix

SpecLossy == Init /\ [][NextLossy]_vars

\* the same, with the animation loop served for ever and a due callback run
SpecLossyFair ==
  /\ SpecLossy
  /\ WF_vars(Frames) /\ WF_vars(FireMix)

\* ---- the gauge frame by frame ----
\* Three states of the first session to start from: the one initAudio leaves, the one
\* the mix callback leaves after a release in the first loop (mix start at
\* loopEndTime + vocalStartTime), and the one the teardown of a stop leaves, where the
\* frames go on without an audio graph.  From each, single frames and the keys.
ConnectedAudio ==
  [EmptyAudio EXCEPT !.ctx = 1, !.gains = ZeroGains,
                     !.clockSrc = [exists |-> TRUE, loop |-> TRUE, stopped |-> FALSE,
                                   ctx |-> 1]]

MixAudio ==
  [ConnectedAudio EXCEPT
     !.clockSrc.loop = FALSE,
     !.stems = [exists |-> TRUE, track |-> Catalog[1],
                startAt |-> loopEndTime + vocalStartTime, ctx |-> 1,
                stopped |-> FALSE, made |-> Assets(Catalog[1])],
     !.gains["clock"] = Cmd("target", GainOne, Immediately),
     !.gains["other"] = Cmd("value", GainOne, loopEndTime + vocalStartTime)]

InitFrame ==
  /\ isLoading = FALSE /\ errorMessage = ""
  /\ musicList = Catalog /\ selectedMusic = Catalog[1]
  /\ buffersClock = TRUE
  /\ musicBuffers = [m \in Tracks |-> IF m = Catalog[1] THEN Loaded(m) ELSE NotLoaded]
  /\ gauge = 0 /\ isLeaning = FALSE /\ loopRunning = TRUE
  /\ timers = <<>> /\ loads = {} /\ bgLoads = Tracks \ {Catalog[1]} /\ switchLoads = {}
  /\ listFetch = FALSE /\ nctx = 1
  /\ switches = 0 /\ released = NoRelease
  /\ isPaused = FALSE /\ pauses = 0 /\ held = NoHold
  /\ \/ /\ stage = 1 /\ statusText = "SYNC TIME (HOLD SPACE)"
        /\ isReady = TRUE /\ stops = 0
        /\ audioRef = ConnectedAudio
        /\ visualGaugeZero = TRUE /\ isLooping = TRUE /\ vocalActive = FALSE
        /\ ctxs = [c \in Ctxs |-> IF c = 1 THEN [state |-> "running", time |-> 0]
                                  ELSE [state |-> "none", time |-> 0]]
     \/ /\ stage = 2 /\ statusText = "MUSIC ACTIVE"
        /\ isReady = TRUE /\ stops = 0
        /\ audioRef = MixAudio
        /\ visualGaugeZero = FALSE /\ isLooping = FALSE /\ vocalActive = TRUE
        /\ ctxs = [c \in Ctxs |-> IF c = 1 THEN [state |-> "running",
                                                 time |-> loopEndTime + vocalStartTime]
                                  ELSE [state |-> "none", time |-> 0]]
     \/ /\ stage = 0 /\ statusText = "DISCONNECTED"
        /\ isReady = FALSE /\ stops = 1
        /\ audioRef = EmptyAudio
        /\ visualGaugeZero = TRUE /\ isLooping = TRUE /\ vocalActive = FALSE
        /\ ctxs = [c \in Ctxs |-> IF c = 1 THEN [state |-> "closed", time |-> 0]
                                  ELSE [state |-> "none", time |-> 0]]

NextFrame == KeyDown \/ KeyUp \/ Frame

SpecFrame == InitFrame /\ [][NextFrame]_vars

\* ---- the older variant, src/unnamed/part_000 ----
\* There the selection and the stem buffers are React state (79-87), not refs, and the
\* animation loop is requested once, by the mount effect (590-599): the gameLoop that
\* runs for ever, and the releaseLoop and scheduleMusicAt17s it calls, are the
\* functions of the first render and see that render's state.
mountSelectedMusic == Catalog[1]
mountMusicBuffers == [m \in Tracks |-> NotLoaded]

\* scheduleMusicAt17s of part_000 (219-280); musicStartAt is at least now, and a delay
\* of 0 runs the callback at once, as a timer due at once does
scheduleMusicAt17sPart000(s, musicStartAt) ==
  LET a == s.audioRef
      currentMusic == mountMusicBuffers[mountSelectedMusic]
  IN IF \E ch \in StemNames : a.gains[ch].cmd = "null" THEN s
     ELSE IF ~currentMusic.loaded \/ "other" \notin currentMusic.stems THEN s
     ELSE [s EXCEPT
             !.audioRef.stems = [exists |-> TRUE, track |-> mountSelectedMusic,
                                 startAt |-> musicStartAt, ctx |-> a.ctx,
                                 stopped |-> FALSE, made |-> currentMusic.stems],
             !.audioRef.gains["other"] = Cmd("value", GainOne, musicStartAt),
             !.timers = Append(@, Timer("mix", Max(0, musicStartAt - currentTime(a.ctx)),
                                        a.ctx, 0))]

\* releaseLoop of part_000 (410-431): the mix is due vocalStartTime after the anchor,
\* or at once when that has passed; this variant has no loop grid
releaseLoopPart000(s) ==
  LET a == s.audioRef
      now == currentTime(a.ctx)
      elapsed == now - a.startTime
      timeUntil17s == vocalStartTime - elapsed
      unlooped == [s EXCEPT !.audioRef.clockSrc.loop = FALSE,
                            !.isLooping = FALSE,
                            !.statusText = "SYNC COMPLETE...",
                            !.released = [start |-> a.startTime, now |-> now,
                                           loopEnd |-> now]]
  IN IF a.ctx = 0 \/ ~a.clockSrc.exists THEN s
     ELSE scheduleMusicAt17sPart000(unlooped,
                                    IF timeUntil17s > 0 THEN now + timeUntil17s ELSE now)

\* gameLoop of part_000 (480-588)
gameLoopPart000(s) ==
  LET g == gaugeStep(s.gauge, isLeaning, vocalActive)
      s1 == [s EXCEPT !.gauge = g]
      live == s1.audioRef.ctx # 0 /\ s1.audioRef.gains["clock"].cmd # "null"
      s2 == IF ~live THEN s1
            ELSE IF s1.isLooping
            THEN setTarget(IF g >= GaugeMax THEN releaseLoopPart000(s1) ELSE s1,
                           "clock", clockTarget(g))
            ELSE IF ~vocalActive THEN setTarget(s1, "clock", GainOne)
            ELSE setTarget(setTarget(setTarget(setTarget(setTarget(s1, "clock", GainOne),
                                                         "other", GainOne),
                                               "bass", bassVolPart000(g)),
                                     "drums", drumsVol(g)),
                           "vocals", vocalsVol(g))
      visualZero == IF live /\ ~s1.isLooping /\ ~vocalActive THEN FALSE ELSE g = 0
  IN [s2 EXCEPT !.visualGaugeZero = s.visualGaugeZero /\ visualZero]

\* the page of part_000 after its first render and its mount effects
InitPart000 ==
  /\ isReady = FALSE /\ isLoading = FALSE /\ statusText = "DISCONNECTED"
  /\ stage = 0 /\ errorMessage = ""
  /\ musicList = Catalog /\ selectedMusic = mountSelectedMusic
  /\ audioRef = EmptyAudio /\ buffersClock = FALSE
  /\ musicBuffers = mountMusicBuffers
  /\ gauge = 0 /\ visualGaugeZero = TRUE /\ isLooping = TRUE
  /\ vocalActive = FALSE /\ isLeaning = FALSE
  /\ loopRunning = TRUE
  /\ timers = <<>> /\ loads = {} /\ bgLoads = {} /\ switchLoads = {}
  /\ listFetch = FALSE
  /\ ctxs = [c \in Ctxs |-> [state |-> "none", time |-> 0]] /\ nctx = 0
  /\ stops = 0 /\ switches = 0
  /\ released = NoRelease
  /\ isPaused = FALSE /\ pauses = 0 /\ held = NoHold

\* one animation frame of part_000
FramePart000 ==
  /\ loopRunning /\ NoTimerDue
  /\ LET r == gameLoopPart000(FrameState)
     IN /\ gauge' = r.gauge /\ visualGaugeZero' = r.visualGaugeZero
        /\ isLooping' = r.isLooping /\ statusText' = r.statusText
        /\ errorMessage' = r.errorMessage /\ audioRef' = r.audioRef
        /\ timers' = r.timers
        /\ released' = r.released
  /\ held' = heldAfter(gauge, held, 1)
  /\ UNCHANGED <<isReady, isLoading, stage, musicList, selectedMusic, buffersClock,
                 musicBuffers, vocalActive, isLeaning, loopRunning, loads, bgLoads,
                 switchLoads, listFetch, ctxs, nctx, stops, switches, isPaused, pauses>>

\* a second passes between two frames; explored while initAudio loads and, once the
\* loop is released, while the hold goes on at a full gauge (the frames of the hold
\* before it are taken at one reading of the clock)
SecondPart000 ==
  /\ MayPass
  /\ isLoading \/ (~isLooping /\ isLeaning /\ gauge = GaugeMax)
  /\ timers' = tickTimers(timers)
  /\ loads' = tickLoads(loads) /\ switchLoads' = tickLoads(switchLoads)
  /\ ctxs' = tickCtxs
  /\ <<timers', loads', switchLoads', ctxs'>> # <<timers, loads, switchLoads, ctxs>>
  /\ UNCHANGED <<isReady, isLoading, statusText, stage, errorMessage, musicList,
                 selectedMusic, audioRef, buffersClock, musicBuffers, gauge,
                 visualGaugeZero, isLooping, vocalActive, isLeaning, loopRunning,
                 bgLoads, listFetch, nctx, stops, switches, released, isPaused, pauses,
                 held>>

\* initAudio of part_000 (122-184), up to its first await
InitAudioBeginPart000 ==
  /\ NoTimerDue
  /\ ~isReady /\ ~isLoading
  /\ nctx < MaxSessions
  /\ isLoading' = TRUE
  /\ statusText' = "LOADING..."
  /\ nctx' = nctx + 1
  /\ ctxs' = [ctxs EXCEPT ![nctx + 1] = [state |-> "running", time |-> 0]]
  /\ loads' = loads \cup {[ctx |-> nctx + 1, selected |-> selectedMusic, age |-> 0]}
  /\ UNCHANGED <<isReady, stage, errorMessage, musicList, selectedMusic, audioRef,
                 buffersClock, musicBuffers, gauge, visualGaugeZero, isLooping,
                 vocalActive, isLeaning, loopRunning, timers, bgLoads, switchLoads,
                 listFetch, stops, switches, released, isPaused, pauses, held>>

\* initAudio of part_000 once the clock and the selected stems have come, or the clock
\* has failed: setMusicBuffers replaces the state by the one folder loaded (136-138)
InitAudioEndPart000 ==
  \E l \in loads, ok \in BOOLEAN :
    /\ NoTimerDue
    /\ loads' = loads \ {l}
    /\ isLoading' = FALSE
    /\ IF ~ok
       THEN /\ errorMessage' = "Failed to load /onlyclock.wav"
            /\ statusText' = "ERROR"
            /\ UNCHANGED <<isReady, stage, audioRef, buffersClock, musicBuffers>>
       ELSE LET fresh == [EmptyAudio EXCEPT !.ctx = l.ctx, !.gains = ZeroGains]
                r == startMusic(fresh, l.ctx)
            IN /\ buffersClock' = TRUE
               /\ musicBuffers' = [m \in Tracks |-> IF m = l.selected
                                                    THEN loadMusicFolder(m, {})
                                                    ELSE NotLoaded]
               /\ audioRef' = r.audioRef
               /\ isReady' = TRUE /\ stage' = 1
               /\ statusText' = "SYNC TIME (HOLD SPACE)"
               /\ UNCHANGED errorMessage
    /\ UNCHANGED <<musicList, selectedMusic, gauge, visualGaugeZero, isLooping,
                   vocalActive, isLeaning, loopRunning, timers, bgLoads, switchLoads,
                   listFetch, ctxs, nctx, stops, switches, released, isPaused, pauses,
                   held>>

\* a click in the selector of part_000 (706-720): setSelectedMusic and nothing else
SelectPart000 ==
  \E m \in Tracks :
    /\ NoTimerDue
    /\ isReady /\ m # selectedMusic
    /\ switches < MaxSwitches
    /\ switches' = switches + 1
    /\ selectedMusic' = m
    /\ UNCHANGED <<isReady, isLoading, statusText, stage, errorMessage, musicList,
                   audioRef, buffersClock, musicBuffers, gauge, visualGaugeZero,
                   isLooping, vocalActive, isLeaning, loopRunning, timers, loads,
                   bgLoads, switchLoads, listFetch, ctxs, nctx, stops, released,
                   isPaused, pauses, held>>

\* part_000 from the mount to a released loop: one click of connect, the keys, frames,
\* seconds and the selector; its stop, pause and background loads are not explored
NextPart000 ==
  \/ (nctx = 0 /\ InitAudioBeginPart000) \/ InitAudioEndPart000
  \/ KeyDown \/ KeyUp \/ FramePart000 \/ SecondPart000 \/ SelectPart000

SpecPart000 == InitPart000 /\ [][NextPart000]_vars

\* ---------------------------------------------------------------------------
\* The claims
\* ---------------------------------------------------------------------------

\* C1: whatever the frames, the mix callback, the teardown and the track swaps did,
\* the gauge is within [0, 100] (0..GaugeMax in twentieths) in every state.
C1_GaugeInRange == gauge \in 0..GaugeMax

\* C1's case: the gauge full in the mix after a swap, and a stop clicked
C1_Witness ==
  gauge = GaugeMax /\ vocalActive /\ stage = 2 /\ switches = 1 /\ stops = 1

\* the callback i of the queue runs in this step
Fires(i, kind) ==
  /\ Due(i) /\ timers[i].kind = kind
  /\ timers' = RemoveAt(timers, i)

\* C2: the stage never steps from MixActive (2) back to Syncing (1), nor from Idle (0)
\* straight to MixActive (2); only a completed stop (2 or 1 to 0) leads back.
C2_StageMonotonic ==
  [][~(stage = 2 /\ stage' = 1) /\ ~(stage = 0 /\ stage' = 2)]_vars

\* C3: at most one mix-activation timer is pending at any time, through connects,
\* frames, stops and reconnects; and while the loop stays released no step arms another.
MixPending(ts) == Cardinality({i \in 1..Len(ts) : ts[i].kind = "mix"})

C3_OneMixPending ==
  [][/\ MixPending(timers') <= 1
     /\ ~isLooping /\ ~isLooping' => MixPending(timers') <= MixPending(timers)]_vars

\* C4: a mix-activation timer that was pending when stop was clicked (armed before the
\* click) does nothing when its time comes: vocalActive, the stage and the gauge stay.
C4_StopCancelsMix ==
  [][\A i \in 1..Len(timers) :
       Fires(i, "mix") /\ timers[i].stops < stops
         => vocalActive' = vocalActive /\ stage' = stage /\ gauge' = gauge]_vars

\* a callback armed in a session that is gone, running while a later session is connected
StaleFor(i) ==
  /\ audioRef.ctx # 0 /\ timers[i].ctx # audioRef.ctx
  /\ ctxs[timers[i].ctx].state = "closed"

\* C5: a teardown or switch callback of a superseded session is a no-op for the session
\* connected since: its sources, its audio graph, its anchor, its stage, its gauge and
\* its ready flag stay as they are.
C5_StaleCallbackIsNoOp ==
  [][\A i \in 1..Len(timers) :
       (Fires(i, "teardown") \/ Fires(i, "switch1") \/ Fires(i, "switch2")) /\ StaleFor(i)
         => /\ audioRef' = audioRef
            /\ stage' = stage /\ gauge' = gauge /\ isReady' = isReady]_vars

\* the gain commands a frame has issued since the channels were ramped down
Retargeted == {ch \in Channels : audioRef.gains[ch].cmd = "target"}

\* C7: from the click on stop to the teardown no frame sets a gain target other than 0
\* (the click leaves a ramp to 0 on every channel, so any target was set after it).
C7_FadeUndisturbed ==
  (\E i \in 1..Len(timers) : timers[i].kind = "teardown" /\ timers[i].ctx = audioRef.ctx)
    => \A ch \in Retargeted : audioRef.gains[ch].v = 0

\* C6: the teardown of a stop runs exactly fadeOutTime after the click and leaves the
\* disconnected state (stage Idle, gauge and visual gauge 0, latch cleared, vocalActive
\* false); while its delay runs none of this has happened; and it does come about.
TeardownPending == \E i \in 1..Len(timers) : timers[i].kind = "teardown"

Disconnected ==
  /\ ~isReady /\ stage = 0 /\ statusText = "DISCONNECTED" /\ audioRef = EmptyAudio
  /\ gauge = 0 /\ visualGaugeZero /\ isLooping /\ ~vocalActive

C6_TeardownAfterFade ==
  /\ [][\A i \in 1..Len(timers) :
          Fires(i, "teardown")
            => /\ currentTime(timers[i].ctx) = timers[i].at + fadeOutTime
               /\ Disconnected']_vars
  /\ [](\A i \in 1..Len(timers) :
          timers[i].kind = "teardown" /\ timers[i].due > 0
            => /\ isReady /\ stage # 0 /\ statusText # "DISCONNECTED"
               /\ audioRef.ctx = timers[i].ctx /\ ctxs[timers[i].ctx].state = "running"
               /\ currentTime(timers[i].ctx) < timers[i].at + fadeOutTime)
  /\ (TeardownPending ~> (Disconnected /\ ~TeardownPending))

\* C6's case: a stop was clicked, its fade has run and its teardown has left this state
C6_Witness ==
  /\ stops = 1 /\ Disconnected /\ timers = <<>>
  /\ ctxs[1].state = "closed" /\ musicBuffers["A"].loaded

\* C8: a second stop clicked during the fade of the first ends, once both callbacks
\* have run, in the disconnected state of a single stop, and the second callback never
\* tears down a session connected after the first one ran.
C8_SecondStopSafe ==
  [][/\ (stops' = 2 /\ nctx' = 1 /\ timers' = <<>>) => Disconnected'
     /\ \A i \in 1..Len(timers) :
          Fires(i, "teardown") /\ audioRef.ctx # 0 /\ timers[i].ctx # audioRef.ctx
            => audioRef' = audioRef /\ isReady' = isReady /\ stage' = stage]_vars

\* C9: the loop end releaseLoop computes is the anchor plus a non-negative whole
\* number of loops, and never lies before the instant of the call.
C9_ReleaseOnLoopGrid ==
  released # NoRelease =>
    /\ released.loopEnd >= released.now
    /\ \E k \in 0..(MaxTime + 1) : released.loopEnd = released.start + k * loopEndTime

\* C9's case: a release in the third loop of a session anchored after time 0
C9_Witness ==
  /\ released # NoRelease /\ released.start > 0
  /\ released.now - released.start > 2 * loopEndTime
  /\ audioRef.stems.exists
  /\ audioRef.stems.startAt = released.loopEnd + vocalStartTime

CeilDiv(e, d) == (e + d - 1) \div d

\* C10 as stated: the loop end is the anchor plus ceil(e / loopEndTime) loops, e the
\* time elapsed since the anchor, also when e is a whole number of loops.
C10_ReleaseIsCeil ==
  released # NoRelease =>
    released.loopEnd =
      released.start + CeilDiv(released.now - released.start, loopEndTime) * loopEndTime

\* C10 amended: the loop end is the first loop boundary strictly after the call,
\* anchor + (floor(e / loopEndTime) + 1) loops; a call exactly on a boundary waits
\* one whole loop.
C10_ReleaseIsNextBoundary ==
  released # NoRelease =>
    /\ released.loopEnd > released.now
    /\ released.loopEnd - loopEndTime <= released.now
    /\ (released.loopEnd - released.start) % loopEndTime = 0

\* C10's case: the release called exactly one loop after the anchor
C10_Witness ==
  /\ released # NoRelease
  /\ released.now - released.start = loopEndTime
  /\ released.loopEnd = released.start + 2 * loopEndTime

\* C11: when releaseLoop has scheduled the mix, the stems start at the loop end it
\* computed plus vocalStartTime, and the mix timer was armed with the delay
\* max(0, that instant - now), now being the clock at the call (a second of which has
\* run off when the frames of the release are over).
C11_MixTimerDelay ==
  [][released = NoRelease /\ released' # NoRelease /\ ~needsLoad(selectedMusic) =>
       LET mixStart == released'.loopEnd + vocalStartTime
       IN /\ audioRef'.stems.exists /\ audioRef'.stems.startAt = mixStart
          /\ \E i \in 1..Len(timers') :
               /\ timers'[i].kind = "mix"
               /\ timers'[i].due = Max(0, mixStart - released'.now) - 1]_vars

\* C11's case: a release late in the second loop of a session anchored after time 0
C11_Witness ==
  /\ released # NoRelease /\ released.start > 0
  /\ released.now - released.start = 2 * loopEndTime - 1
  /\ audioRef.stems.exists
  /\ \E i \in 1..Len(timers) : timers[i].kind = "mix" /\ timers[i].due = vocalStartTime

\* C12: in MixActive (stage 2, vocalActive) the audio clock has reached the mix start
\* instant at which releaseLoop started the stems, whether or not the context was
\* suspended between the release and the mix callback.
C12_MixOnAudioClock ==
  stage = 2 /\ vocalActive /\ audioRef.stems.exists
    => currentTime(audioRef.ctx) >= audioRef.stems.startAt

\* C13: a release attempted while the selected stems are not buffered surfaces the
\* failure and leaves the stage, the full gauge and the anchor as they are, arms no
\* timer, and is not consumed: the latch isLooping and the clock's loop flag stay set,
\* so that a later saturation calls releaseLoop again.
C13_FailedReleaseRetryable ==
  [][released = NoRelease /\ released' # NoRelease /\ needsLoad(selectedMusic) =>
       /\ errorMessage' = "Failed to load music"
       /\ stage' = stage /\ gauge' = GaugeMax
       /\ audioRef'.startTime = audioRef.startTime
       /\ MixPending(timers') = MixPending(timers)
       /\ isLooping' /\ audioRef'.clockSrc.loop]_vars

\* the click on a track that is not buffered, in MixActive; and the end of its load
UnbufferedClick ==
  stage = 2 /\ Cardinality(switchLoads') > Cardinality(switchLoads)

UnbufferedDone(w) ==
  w \in switchLoads /\ w.stage = 2 /\ switchLoads' = switchLoads \ {w}

Lateral ==
  /\ gauge' = gauge /\ stage' = stage /\ isLooping' = isLooping
  /\ vocalActive' = vocalActive
  /\ audioRef'.startTime = audioRef.startTime

C15_SwitchIsLateral ==
  [][/\ stage = 2 /\ switches' > switches => Lateral
     /\ \A w \in switchLoads : UnbufferedDone(w) => Lateral
     /\ \A i \in 1..Len(timers) : Fires(i, "switch2") =>
          /\ Lateral
          /\ ~needsLoad(selectedMusic) =>
                /\ audioRef'.stems.exists /\ ~audioRef'.stems.stopped
                /\ audioRef'.stems.track = selectedMusic
                /\ audioRef'.stems.startAt = currentTime(timers[i].ctx)
                /\ audioRef'.stems.startAt = timers[i].at + switchFade]_vars

\* C15's case: the swapped stems play from an instant off the grid of the anchor, the
\* gauge charged and the stage still MixActive
C15_Witness ==
  /\ stage = 2 /\ vocalActive /\ ~isLooping /\ gauge > 0 /\ switches = 1
  /\ audioRef.stems.exists /\ audioRef.stems.track = selectedMusic
  /\ selectedMusic = Catalog[2] /\ Catalog[2] \notin bgLoads
  /\ audioRef.stems.startAt = currentTime(audioRef.ctx)
  /\ (audioRef.stems.startAt - audioRef.startTime - vocalStartTime) % loopEndTime # 0

\* p per cent of the gauge; a gain clamped to [0, 1]; the target a frame left on a channel
Pct(p) == p * (GaugeMax \div 100)
Clamp01(x) == IF x < 0 THEN 0 ELSE IF x > GainOne THEN GainOne ELSE x
target(ch) == audioRef.gains[ch].v

\* the last frame ran the mixer of MixActive: the gauge is the one it mixed
MixerRan ==
  vocalActive /\ \A ch \in {"bass", "drums", "vocals"} : audioRef.gains[ch].cmd = "target"

\* C16: the targets the mixer sets are bass = clamp(gauge/20, 0, 1),
\* drums = clamp((gauge-20)/20, 0, 1), vocals = clamp((gauge-40)/60, 0, 1) (gauge in
\* per cent); at 20 bass is 1 and drums 0, at 40 drums 1 and vocals 0, at 100 vocals 1;
\* and the earlier variant of gameLoop computes the same three targets.
C16_MixerTargets ==
  MixerRan =>
    /\ target("bass") = Clamp01((gauge * GainOne) \div Pct(20))
    /\ target("drums") = Clamp01(((gauge - Pct(20)) * GainOne) \div Pct(20))
    /\ target("vocals") = Clamp01(((gauge - Pct(40)) * GainOne) \div Pct(60))
    /\ gauge = Pct(20) => target("bass") = GainOne /\ target("drums") = 0
    /\ gauge = Pct(40) => target("drums") = GainOne /\ target("vocals") = 0
    /\ gauge = Pct(100) => target("vocals") = GainOne
    /\ bassVolPart000(gauge) = target("bass")
    /\ drumsVol(gauge) = target("drums")
    /\ vocalsVol(gauge) = target("vocals")

\* C16's case: a frame of the mix at gauge 20 exactly
C16_Witness ==
  /\ MixerRan /\ gauge = Pct(20)
  /\ target("bass") = GainOne /\ target("drums") = 0 /\ target("vocals") = 0

\* C17: the bands do not overlap: a drums target above 0 only with the bass at 1, a
\* vocals target above 0 only with the drums at 1.
C17_BandsDisjoint ==
  MixerRan =>
    /\ target("drums") > 0 => target("bass") = GainOne
    /\ target("vocals") > 0 => target("drums") = GainOne

\* C17's case: a frame of the mix just inside the vocals band
C17_Witness ==
  /\ MixerRan /\ gauge > Pct(40) /\ gauge < Pct(41)
  /\ target("vocals") > 0 /\ target("drums") = GainOne /\ target("bass") = GainOne

\* C18: with the input active in every frame from gauge 0 (gaugeSpeed 0.15 a frame),
\* the gauge is at 100 for the first time in frame 667, and below it in every frame
\* before.
C18_FullAfter667 ==
  held # NoHold => (gauge = GaugeMax <=> held = 667) /\ held <= 667

\* C18's case: frame 667 of a hold in Syncing, the one that releases the loop
C18_Witness ==
  /\ stage = 1 /\ ~vocalActive /\ held = 667 /\ gauge = GaugeMax
  /\ released # NoRelease /\ ~isLooping

\* C19: handlePause called while there is no audio graph (before the first connect,
\* while it loads, after the teardown of a stop) changes nothing: not the paused flag,
\* not the status, not the stage, nor anything of the audio state.
C19_PauseNeedsGraph ==
  [][pauses' > pauses /\ audioRef.ctx = 0 =>
       UNCHANGED <<isReady, isLoading, statusText, stage, errorMessage, musicList,
                   selectedMusic, isPaused, audioRef, buffersClock, musicBuffers, gauge,
                   visualGaugeZero, isLooping, vocalActive, isLeaning, loopRunning,
                   timers, loads, bgLoads, switchLoads, listFetch, ctxs, nctx>>]_vars

\* C19's case: pause and resume both called before any connect
C19_Witness ==
  /\ pauses = 2 /\ nctx = 0 /\ audioRef = EmptyAudio
  /\ ~isPaused /\ statusText = "DISCONNECTED" /\ stage = 0

\* C20: initAudio called with no track selected surfaces "No music selected" and does
\* nothing else: no loading flag, no audio context, and the stage, the gauge and the
\* ready flag as they were; as long as nothing is selected, nothing has been connected.
C20_NoSelectionNoChange ==
  /\ [][selectedMusic = "" /\ errorMessage' = "No music selected"
           /\ errorMessage' # errorMessage =>
         UNCHANGED <<isReady, isLoading, statusText, stage, musicList, selectedMusic,
                     isPaused, audioRef, buffersClock, musicBuffers, gauge,
                     visualGaugeZero, isLooping, vocalActive, isLeaning, loopRunning,
                     timers, loads, bgLoads, switchLoads, listFetch, ctxs, nctx>>]_vars
  /\ [](selectedMusic = "" =>
          /\ ~isLoading /\ ~isReady /\ stage = 0 /\ gauge = 0
          /\ nctx = 0 /\ audioRef = EmptyAudio /\ loads = {})

\* C20's case: connect clicked after the list of tracks failed to load
C20_Witness ==
  /\ errorMessage = "No music selected" /\ selectedMusic = "" /\ ~listFetch
  /\ ~isLoading /\ ~isReady /\ nctx = 0 /\ statusText = "DISCONNECTED"

\* C21: initAudio fails, not ready, stage Idle and no clock source started, when the
\* clock or the selected stems could not be loaded: the page is never ready in Syncing
\* with a selected track whose accompaniment buffer is absent.
C21_ReadyWithAccompaniment ==
  /\ [](isReady /\ stage = 1 => ~needsLoad(selectedMusic))
  /\ [][statusText' = "ERROR" /\ statusText # "ERROR" =>
          ~isReady' /\ stage' = 0 /\ ~audioRef'.clockSrc.exists /\ ~loopRunning']_vars

\* C22: the step in which the mix-activation callback runs sets the gauge to 0 and
\* the stage to 2 (MixActive) together, and the accompaniment gain stands at full
\* from the instant the stems were scheduled to start.
C22_MixActivationStep ==
  [][\A i \in 1..Len(timers) : Fires(i, "mix") =>
        /\ gauge' = 0 /\ stage' = 2 /\ vocalActive'
        /\ audioRef'.stems.exists
        /\ audioRef'.gains # NoGains
        /\ audioRef'.gains["other"] = Cmd("value", GainOne, audioRef'.stems.startAt)]_vars

\* C23: every stem source made at the loop release is started at the instant computed
\* there, the released loop's end plus vocalStartTime, and the firing of the mix
\* timer, early or late on the audio clock, leaves the sources and their start alone.
C23_StemsStartAtMixInstant ==
  [][/\ (released = NoRelease /\ released' # NoRelease /\ audioRef'.stems.exists =>
            /\ ~audioRef.stems.exists
            /\ audioRef'.stems.startAt = released'.loopEnd + vocalStartTime
            /\ audioRef'.stems.startAt > released'.now
            /\ audioRef'.stems.made = BufOf(selectedMusic).stems)
     /\ \A i \in 1..Len(timers) : Fires(i, "mix") =>
            /\ audioRef'.stems = audioRef.stems
            /\ ctxs' = ctxs]_vars

\* the mix timer has fired while the audio clock, held back by a pause, has not
\* reached the start of the stems
C23_Witness ==
  /\ stage = 2 /\ vocalActive
  /\ audioRef.stems.exists /\ ~audioRef.stems.stopped
  /\ audioRef.stems.startAt = loopEndTime + vocalStartTime
  /\ currentTime(audioRef.ctx) < audioRef.stems.startAt

\* C24: a release with the accompaniment buffer of the selected track present binds
\* a source for every buffer present and for no other, raises no error and arms the
\* mix timer, whose firing sets stage 2; only a release without the accompaniment
\* buffer is refused, with an error, no source and no timer.
C24_OnlyAccompanimentRequired ==
  [][/\ (released = NoRelease /\ released' # NoRelease =>
            LET have == BufOf(selectedMusic).stems
            IN IF "other" \in have
               THEN /\ audioRef'.stems.exists /\ audioRef'.stems.made = have
                    /\ MixPending(timers') = 1
                    /\ errorMessage' = errorMessage
               ELSE /\ ~audioRef'.stems.exists
                    /\ MixPending(timers') = 0
                    /\ errorMessage' # "")
     /\ \A i \in 1..Len(timers) : Fires(i, "mix") => stage' = 2 /\ vocalActive']_vars

\* MixActive reached with sources for the accompaniment and some, not all, of the
\* three layered stems
C24_Witness ==
  /\ stage = 2 /\ vocalActive /\ errorMessage = ""
  /\ audioRef.stems.exists
  /\ "other" \in audioRef.stems.made
  /\ audioRef.stems.made # StemNames

\* a step in which startMusic has started a clock source: the end of a connect or
\* the deferred restart of a stage-1 switch
ConnectDone == loads' # loads /\ isReady' /\ ~isReady
RestartDone == \E i \in 1..Len(timers) : Fires(i, "switch1")

\* C25: the anchor startTime is written once in a session, by the connect that starts
\* the clock source, and then only by the teardown of a stop: no loop release, mix
\* activation or track switch changes it.
C25_AnchorSetOnce ==
  [][audioRef'.startTime # audioRef.startTime =>
        \/ ConnectDone
        \/ \E i \in 1..Len(timers) : Fires(i, "teardown")]_vars

\* C25, as the code has it: the anchor is written where a clock source is started,
\* to the audio time of that start: at the end of a connect and at the deferred
\* restart of a switch made in stage 1, and cleared by the teardown of a stop. A loop
\* release, a mix activation, a switch click and the restart of a switch made in
\* stage 2 leave it alone.
C25_AnchorSetAtClockStart ==
  [][/\ (audioRef'.startTime # audioRef.startTime =>
            \/ /\ ConnectDone \/ RestartDone
               /\ audioRef'.clockSrc.exists /\ audioRef'.clockSrc.loop
               /\ audioRef'.startTime = currentTime(audioRef'.ctx)
            \/ /\ \E i \in 1..Len(timers) : Fires(i, "teardown")
               /\ audioRef' = EmptyAudio)
     /\ (released' # released => audioRef'.startTime = audioRef.startTime)
     /\ (switches' # switches => audioRef'.startTime = audioRef.startTime)
     /\ \A i \in 1..Len(timers) :
            Fires(i, "mix") \/ Fires(i, "switch2") =>
              audioRef'.startTime = audioRef.startTime]_vars

\* after a switch in stage 1 has restarted the clock at a later anchor, the loop has
\* been released and the mix is active
C25_Witness ==
  /\ switches = 1 /\ audioRef.startTime > 0
  /\ stage = 2 /\ vocalActive /\ audioRef.stems.exists
  /\ audioRef.stems.startAt = audioRef.startTime + loopEndTime + vocalStartTime

\* C26: the stage is 0 (Idle) exactly when no audio graph exists: in stage 1 or 2 the
\* context and the five gain channels are there, and from the teardown of a stop the
\* stage is 0, and stays 0 until a connect has built the next graph.
C26_IdleIffNoGraph ==
  /\ [](stage # 0 <=> audioRef.ctx # 0)
  /\ [](stage # 0 => \A ch \in Channels : audioRef.gains[ch].cmd # "null")
  /\ [][stage = 0 /\ stage' # 0 => ConnectDone]_vars

\* C27: a call of handlePause changes neither the stage, the loop latch, vocalActive,
\* the anchor and the rest of the audio graph, the gauge nor any pending timer; on a
\* running context it suspends the audio clock, on a suspended one it sets the clock
\* running again at the time it stood at, so that a pause and the resume after it
\* each leave the stage they found.
C27_PauseOrthogonal ==
  [][pauses' > pauses =>
        /\ stage' = stage /\ isLooping' = isLooping /\ vocalActive' = vocalActive
        /\ audioRef' = audioRef /\ timers' = timers /\ gauge' = gauge
        /\ LET c == audioRef.ctx
           IN c # 0 =>
                /\ ctxs'[c].time = ctxs[c].time
                /\ ctxs[c].state = "running" => ctxs'[c].state = "suspended" /\ isPaused'
                /\ ctxs[c].state = "suspended" => ctxs'[c].state = "running" /\ ~isPaused']_vars

\* resumed after a pause that fell between the loop release and the mix activation:
\* the timer is still pending and now runs ahead of the audio clock
C27_Witness ==
  /\ pauses = 2 /\ ~isPaused
  /\ stage = 1 /\ ~isLooping /\ MixPending(timers) = 1
  /\ audioRef.ctx # 0 /\ ctxs[audioRef.ctx].state = "running"
  /\ \E i \in 1..Len(timers) :
        timers[i].due + currentTime(audioRef.ctx) < audioRef.stems.startAt - 1

\* the frame's arithmetic, as the claims state it
Clamp0100(g) == Max(0, IF g > GaugeMax THEN GaugeMax ELSE g)

\* C28: every frame, with or without an audio graph, in every stage, moves the gauge
\* to clamp(gauge + (leaning ? chargeRate : -decayRate), 0, 100), chargeRate being
\* vocalGaugeSpeed while vocalActive and gaugeSpeed otherwise.
C28_GaugeUpdate ==
  [][isLeaning' = isLeaning =>
        gauge' = Clamp0100(IF isLeaning
                           THEN gauge + (IF vocalActive THEN vocalGaugeSpeed ELSE gaugeSpeed)
                           ELSE gauge - decayRate)]_vars

\* frames have charged and decayed the gauge with no audio graph left
C28_Witness ==
  /\ audioRef.ctx = 0 /\ stage = 0 /\ loopRunning
  /\ gauge = 5 * gaugeSpeed - decayRate

\* C29: a frame with a live audio graph leaves the clock gain aimed at gauge/100 of
\* the gauge it has just updated while the clock loops, and at 1.0 once the loop is
\* released, in Syncing and in MixActive alike; without a graph no gain is aimed.
C29_ClockTarget ==
  /\ audioRef.ctx # 0 /\ audioRef.gains["clock"].cmd = "target" =>
       audioRef.gains["clock"].v = IF isLooping THEN (gauge * GainOne) \div GaugeMax
                                   ELSE GainOne
  /\ audioRef.ctx # 0 /\ (gauge > 0 \/ ~isLooping) => audioRef.gains["clock"].cmd = "target"
  /\ audioRef.ctx = 0 => audioRef.gains = NoGains

\* the clock looping, aimed at half gain by a frame that left the gauge at 50
C29_Witness ==
  /\ stage = 1 /\ isLooping /\ gauge = Pct(50)
  /\ audioRef.gains["clock"] = Cmd("target", GainOne \div 2, Immediately)

\* a step in which the deferred restart of a switch made in stage 2 binds new stems
Swap2Done == \E i \in 1..Len(timers) : Fires(i, "switch2")

\* C30: the stems bound at the loop release, and those started by the timer of a
\* switch made in stage 2, are the buffers of the track selected when that code
\* runs, the latest selection, whatever was selected at connect.
C30_LatestSelectionBound ==
  [][(released = NoRelease /\ released' # NoRelease) \/ Swap2Done =>
        (audioRef'.stems.exists /\ ~audioRef'.stems.stopped =>
           /\ audioRef'.stems.track = selectedMusic
           /\ audioRef'.stems.made = BufOf(selectedMusic).stems
           /\ "other" \in audioRef'.stems.made)]_vars

\* a loop released after the selection has changed since connect: the stems bound
\* are those of the track selected now
C30_Witness ==
  /\ selectedMusic # Catalog[1]
  /\ stage = 1 /\ ~isLooping /\ MixPending(timers) = 1
  /\ audioRef.stems.exists /\ ~audioRef.stems.stopped
  /\ audioRef.stems.track = selectedMusic
  /\ audioRef.stems.made = Assets(selectedMusic)

\* C31: in part_000, after a successful connect, the frame that sees the gauge
\* saturated consults the selection and stem buffers current at that moment, those
\* connect loaded: it binds stem sources and arms the mix timer that leads to stage 2.
C31_SaturationSchedulesMix ==
  [][isLooping /\ ~isLooping' =>
        /\ audioRef'.stems.exists
        /\ audioRef'.stems.made = BufOf(selectedMusic).stems
        /\ MixPending(timers') = 1]_vars

\* the seconds from the first frame of a hold to the mix callback, at most: the frames
\* that fill the gauge, the rest of the loop, and vocalStartTime
HoldToMix == CeilDiv(GaugeMax, gaugeSpeed * FramesPerSec) + loopEndTime + vocalStartTime

\* C32: from any state of stage 1 after a connect that has the accompaniment of the
\* selected track (and has the time left that a hold needs within the span explored),
\* either the key is up in some later frame or stage 2 is reached: a hold kept up on
\* every frame leads to MixActive, the frames and the timer being served.
C32_HeldReachesMix ==
  (/\ isReady /\ stage = 1 /\ ~needsLoad(selectedMusic)
   /\ currentTime(audioRef.ctx) <= MaxTime - HoldToMix)
    ~> (stage = 2 \/ ~isLeaning)

\* MixActive at the earliest instant a hold begun at connect can bring it, the key
\* still down
C32_Witness ==
  /\ stage = 2 /\ vocalActive /\ isLeaning
  /\ audioRef.stems.exists
  /\ currentTime(audioRef.ctx) = loopEndTime + vocalStartTime
  /\ gauge = 0

\* C33: in every state vocalActive implies that the loop has been released (isLooping
\* is false), however the mix callback interleaves with a stop's teardown and a
\* reconnect.
C33_VocalActiveImpliesReleased == vocalActive => ~isLooping

\* C34: whenever a clock source exists and plays, its loop flag equals the isLooping
\* latch, also after a switch made in stage 1 once the loop was released, whose
\* deferred restart starts a new looping clock source through startMusic.
C34_LoopFlagIsLatch ==
  audioRef.clockSrc.exists /\ ~audioRef.clockSrc.stopped =>
    (audioRef.clockSrc.loop <=> isLooping)

\* C35: every session starts clean: at the step in which connect takes the stage
\* from 0 to 1 the gauge is 0, isLooping is true and vocalActive is false, also for
\* a reconnect after a stop during which the frames went on with whatever input.
C35_SessionStartsClean ==
  [][ConnectDone /\ stage = 0 /\ stage' = 1 =>
        gauge' = 0 /\ isLooping' /\ ~vocalActive']_vars

====
